---- MODULE Spec2Model ----
(***************************************************************************)
(* A model of nsq.client.Client (src/nsq/client.py): the endpoint ->       *)
(* Connection pool, discover(), remove() and read().                       *)
(*                                                                         *)
(* One owning thread calls the three methods one after the other.  A call  *)
(* is one atomic step from pc = "idle" to pc = "done"; the step records    *)
(* what the caller saw (outcome, exc, ret), the arguments and environment  *)
(* answers the call got (args) and the state it started from (pre).        *)
(* Return hands control back to the caller's loop.                         *)
(***************************************************************************)
EXTENDS Integers, Sequences, FiniteSets, TLC

\* ------------------------------------------------------------------ bounds
Endpoints == {"A", "B", "C"}   \* the (host, port) pairs lookupd may report
MaxFrames == 2                 \* responses one conn.read() yields at most
MaxPending == 1                \* outbound bytes queued on one connection
MaxClock == 2                  \* largest value time.time() returns
MaxGen == 2                    \* Connection objects built per endpoint
MaxReady == 2                  \* readiness events one select() reports
MaxAcks == 2                   \* ack methods called on one decoded Message

\* ----------------------------------------------------------------- helpers
Range(s) == {s[i] : i \in DOMAIN s}

Perms(S) == {s \in [1..Cardinality(S) -> S] : \A i, j \in DOMAIN s : s[i] = s[j] => i = j}

\* The sub-list of list s whose elements are in S, in s's order.
Filter(s, S) == SelectSeq(s, LAMBDA x : x \in S)

\* connection.Connection(host, port): a new object; gen tells apart the
\* objects built for one endpoint.
Connection(e, g) == [ep |-> e, gen |-> g]

\* Every Connection object the client can build.
Conns == {Connection(e, g) : e \in Endpoints, g \in 1..MaxGen}

\* The k responses one conn.read() yields, in arrival order.
Frames(c, k) == [i \in 1..k |-> [conn |-> c, n |-> i]]

VARIABLES
    connections,     \* self._connections: endpoint -> Connection
    last_discovery,  \* self._last_discovery
    created,         \* endpoint -> number of Connection objects built for it
    closed,          \* the Connection objects close() was called on
    pending,         \* Connection object -> outbound bytes not yet sent
    pc,              \* "idle" | "done" | "blocked"
    op,              \* the call that last ran
    outcome,         \* "returned" | "raised" | "none"
    exc,             \* the exception the call raised
    ret,             \* the value the call returned, as a list
    args,            \* the call's arguments and the environment's answers
    pre,             \* the client's state when the call started
    dropped,         \* history: the Connection objects remove() was called for
    frame,           \* the frame last handed to Response.from_raw
    response,        \* what from_raw made of it
    commands,        \* Connection object -> the commands sent on it, in order
    acks             \* the ack methods called on the decoded Message, in order

vars == <<connections, last_discovery, created, closed, pending,
          pc, op, outcome, exc, ret, args, pre, dropped,
          frame, response, commands, acks>>

client == <<connections, last_discovery, created, closed, pending>>

wire == <<frame, response, commands, acks>>

NoArgs == [D |-> {}, key |-> "none", closeFails |-> {}, asked |-> {},
           writes |-> {}, readable |-> <<>>,
           writable |-> <<>>, exceptions |-> <<>>, yields |-> <<>>, sent |-> <<>>]

NoPre == [connections |-> <<>>, closed |-> {}, pending |-> <<>>, last_discovery |-> 0]

\* No frame decoded yet.
NoFrame == [conn |-> "none", frame_type |-> 0, payload |-> <<>>, id |-> <<>>, raw |-> <<>>]

NoResponse == [raised |-> FALSE, exc |-> "none", obj |-> <<>>]

Snapshot == [connections |-> connections, closed |-> closed,
             pending |-> pending, last_discovery |-> last_discovery]

\* Client.__init__
Init ==
    /\ connections = <<>>
    /\ last_discovery = 0
    /\ created = [e \in Endpoints |-> 0]
    /\ closed = {}
    /\ pending = <<>>
    /\ pc = "idle"
    /\ op = "none"
    /\ outcome = "none"
    /\ exc = "none"
    /\ ret = <<>>
    /\ args = NoArgs
    /\ pre = NoPre
    /\ dropped = {}
    /\ frame = NoFrame
    /\ response = NoResponse
    /\ commands = [c \in Conns |-> <<>>]
    /\ acks = <<>>

\* self._connections is a builtin dict ({}): these are the attributes a call
\* on it can name.  `delete` is not one of them.
DictAttributes == {"keys", "values", "items", "get", "pop", "popitem",
                   "clear", "update", "setdefault", "has_key", "copy"}

\* self._connections.<name>: the attribute lookup raises AttributeError.
AttributeErrorOn(name) == name \notin DictAttributes

\* self._connections.values()
Values(d) == {d[e] : e \in DOMAIN d}

Done(o, out, e, r, a) ==
    /\ pc' = "done"
    /\ op' = o
    /\ outcome' = out
    /\ exc' = e
    /\ ret' = r
    /\ args' = a
    /\ pre' = Snapshot

\* ---------------------------------------------------------------- discover
\* A discover() that resets the time of the last discovery before the lookup.
DiscoverFailsAfterReset ==
    /\ pc = "idle"
    /\ Done("discover", "raised", "DiscoveryError", <<>>, NoArgs)
    /\ last_discovery' = 0
    /\ UNCHANGED <<connections, created, closed, pending>>

\* Lines 26-33: the lookup request, json.loads and the producers list.  A
\* transport failure or a body of another shape raises here, before the
\* pool is read or written.
DiscoverFails ==
    /\ pc = "idle"
    /\ Done("discover", "raised", "DiscoveryError", <<>>, NoArgs)
    /\ UNCHANGED client

\* A discover() that connects to every discovered producer, pooled or not.
NewIgnoringPool(D, d) == D

\* Line 36: new = set(producers) - set(self._connections.keys())
New(D, d) == D \ DOMAIN d

\* A discover() that builds each new Connection for another endpoint than
\* the key it stores it under.
ConnectElsewhere(d, cr, new) ==
    [e \in DOMAIN d \cup new |->
        IF e \in new THEN Connection(CHOOSE x \in Endpoints : x # e, cr[e] + 1) ELSE d[e]]

\* Lines 37-39: self._connections[(host, port)] = connection.Connection(host, port)
Connect(d, cr, new) ==
    [e \in DOMAIN d \cup new |-> IF e \in new THEN Connection(e, cr[e] + 1) ELSE d[e]]

\* Line 42: old = set(self._connections.keys()) - set(producers)
Old(D, d) == DOMAIN d \ D

\* Line 51: [self._connections[key] for key in new]; enum is the order in
\* which the set new is iterated.
NewList(d, enum) == [i \in DOMAIN enum |-> d[enum[i]]]

\* discover() with the lookup answering the producers D; t is time.time();
\* F are the connections whose close() raises when it is called.
Discover(D, t, enum, F) ==
    LET new == New(D, connections)
        conns1 == Connect(connections, created, new)
        old == Old(D, conns1)
        a == [NoArgs EXCEPT !.D = D, !.closeFails = F]
    IN  /\ pc = "idle"
        /\ \A e \in new : created[e] < MaxGen
        /\ created' = [e \in Endpoints |-> IF e \in new THEN created[e] + 1 ELSE created[e]]
        /\ pending' = [c \in DOMAIN pending \cup {conns1[e] : e \in new} |->
                          IF c \in DOMAIN pending THEN pending[c] ELSE 0]
        /\ connections' = conns1
        /\ closed' = closed
        /\ \/ /\ old = {}
              /\ last_discovery' = t
              /\ Done("discover", "returned", "none", NewList(conns1, enum), a)
           \/ \* line 45: self._connections.delete raises on the first key of old
              /\ old # {}
              /\ AttributeErrorOn("delete")
              /\ last_discovery' = last_discovery
              /\ Done("discover", "raised", "AttributeError", <<>>, a)

\* ------------------------------------------------------------------ remove
\* dict.pop(key, None): the entry is taken out and its value returned.
DictPop(d, key) ==
    [raised |-> FALSE,
     dict |-> [e \in DOMAIN d \ {key} |-> d[e]],
     found |-> IF key \in DOMAIN d THEN <<d[key]>> ELSE <<>>]

\* dict.get(key, None): the value is returned and the entry stays.
DictGet(d, key) ==
    [raised |-> FALSE,
     dict |-> d,
     found |-> IF key \in DOMAIN d THEN <<d[key]>> ELSE <<>>]

\* dict.clear() followed by returning None.
DictClear(d, key) == [raised |-> FALSE, dict |-> <<>>, found |-> <<>>]

\* Line 56: self._connections.delete(key, None).  The attribute lookup
\* raises before the dict is touched.  found is the value as a list: <<>> is
\* None.
DictDelete(d, key) == [raised |-> AttributeErrorOn("delete"), dict |-> d, found |-> <<>>]

\* Lines 55-61, the body of remove() on the dict d with cl the closed
\* connections.  Line 56 is outside the try block, so what it raises leaves
\* remove().  Lines 57-60: found.close(); an exception of it (found being
\* None, or a connection of F, whose close() raises) is logged.
RemoveCall(d, cl, key, F) ==
    LET lk == DictDelete(d, key)
    IN  IF lk.raised
        THEN [raised |-> TRUE, dict |-> d, closed |-> cl, found |-> <<>>]
        ELSE [raised |-> FALSE, dict |-> lk.dict,
              closed |-> cl \cup (Range(lk.found) \ F), found |-> lk.found]

\* remove(connection); key is (connection.host, connection.port); F are the
\* connections whose close() raises when it is called.
Remove(key, F) ==
    LET r == RemoveCall(connections, closed, key, F)
    IN  /\ pc = "idle"
        /\ connections' = r.dict
        /\ closed' = r.closed
        /\ UNCHANGED <<last_discovery, created, pending>>
        /\ Done("remove",
                IF r.raised THEN "raised" ELSE "returned",
                IF r.raised THEN "AttributeError" ELSE "none",
                r.found,
                [NoArgs EXCEPT !.key = key, !.closeFails = F,
                               !.asked = {connections[e] : e \in DOMAIN connections \cap {key}}])

\* -------------------------------------------------------------------- read
\* A read() that keeps only the last connection's responses.
ExtendOverwriting(acc, xs) == xs

\* Line 76: responses.extend(conn.read())
Extend(acc, xs) == acc \o xs

\* Lines 75-76: the loop over readable.  yields[c] is what c.read() does:
\* the number of responses it returns, or -1 when it raises.
RECURSIVE ReadAll(_, _, _, _)
ReadAll(rs, yields, i, acc) ==
    IF i > Len(rs) THEN [ok |-> TRUE, responses |-> acc]
    ELSE IF yields[rs[i]] < 0 THEN [ok |-> FALSE, responses |-> acc]
    ELSE ReadAll(rs, yields, i + 1, Extend(acc, Frames(rs[i], yields[rs[i]])))

\* Lines 79-80: the loop over writable.  sent[c] is what c.flush() does: the
\* number of pending bytes the transport took, or -1 when it raises.
RECURSIVE FlushAll(_, _, _, _)
FlushAll(ws, sent, i, pend) ==
    IF i > Len(ws) THEN [ok |-> TRUE, pending |-> pend]
    ELSE IF sent[ws[i]] < 0 THEN [ok |-> FALSE, pending |-> pend]
    ELSE FlushAll(ws, sent, i + 1, [pend EXCEPT ![ws[i]] = @ - sent[ws[i]]])

\* Lines 84-85: the loop over exceptions, from its i-th element on; asked
\* counts the connections remove() was called for.
RECURSIVE RemoveAll(_, _, _, _)
RemoveAll(xs, i, d, cl) ==
    IF i > Len(xs) THEN [raised |-> FALSE, dict |-> d, closed |-> cl, asked |-> i - 1]
    ELSE LET r == RemoveCall(d, cl, xs[i].ep, {})
         IN  IF r.raised
             THEN [raised |-> TRUE, dict |-> r.dict, closed |-> r.closed, asked |-> i]
             ELSE RemoveAll(xs, i + 1, r.dict, r.closed)

\* A read() that watches every connection for writing.
WritesAll(conns, pend) == conns

\* A read() that watches no connection for writing.
WritesNone(conns, pend) == <<>>

\* Line 69: writes = [c for c in connections if c.pending()]
Writes(conns, pend) == Filter(conns, {c \in Range(conns) : pend[c] > 0})

\* read(): ord is the order of self._connections.values(); R, W and X are
\* the connections select.select reports readable, writable and in error.
Read(ord, R, W, X, yields, sent) ==
    LET conns == [i \in DOMAIN ord |-> connections[ord[i]]]
        writes == Writes(conns, pending)
        readable == Filter(conns, R)
        writable == Filter(writes, W)
        exceptions == Filter(conns, X)
        rd == ReadAll(readable, yields, 1, <<>>)
        fl == FlushAll(writable, sent, 1, pending)
        rm == RemoveAll(exceptions, 1, connections, closed)
        a == [NoArgs EXCEPT !.writes = Range(writes), !.readable = readable,
                            !.writable = writable, !.exceptions = exceptions,
                            !.yields = yields, !.sent = sent]
    IN  /\ pc = "idle"
        /\ R \subseteq Range(conns)
        /\ W \subseteq Range(writes)
        /\ X \subseteq Range(conns)
        \* select.select has no timeout: it returns once something is ready
        /\ R \cup W \cup X # {}
        /\ Cardinality(R) + Cardinality(W) + Cardinality(X) <= MaxReady
        /\ UNCHANGED <<last_discovery, created>>
        /\ \/ \* line 76: conn.read() raises; nothing catches it
              /\ ~rd.ok
              /\ pending' = pending
              /\ UNCHANGED <<connections, closed>>
              /\ Done("read", "raised", "ReadError", <<>>, a)
           \/ \* line 80: conn.flush() raises; nothing catches it
              /\ rd.ok /\ ~fl.ok
              /\ pending' = fl.pending
              /\ UNCHANGED <<connections, closed>>
              /\ Done("read", "raised", "FlushError", <<>>, a)
           \/ \* line 85: self.remove(conn) raises
              /\ rd.ok /\ fl.ok
              /\ rm.raised
              /\ pending' = fl.pending
              /\ connections' = rm.dict
              /\ closed' = rm.closed
              /\ Done("read", "raised", "AttributeError", <<>>,
                      [a EXCEPT !.asked = {exceptions[j] : j \in 1..rm.asked}])
           \/ \* line 87: return responses
              /\ rd.ok /\ fl.ok
              /\ ~rm.raised
              /\ pending' = fl.pending
              /\ connections' = rm.dict
              /\ closed' = rm.closed
              /\ Done("read", "returned", "none", rd.responses,
                      [a EXCEPT !.asked = {exceptions[j] : j \in 1..rm.asked}])

\* read() when nothing select.select watches gets ready (an empty pool
\* included): line 70 passes no timeout, so the call does not return.
ReadBlocked ==
    /\ pc = "idle"
    /\ pc' = "blocked"
    /\ op' = "read"
    /\ UNCHANGED <<client, outcome, exc, ret, args, pre>>

\* ------------------------------------------------------------- environment
\* The caller queues a command (sub, fin, req, touch, ...) on a pooled
\* connection: one more outbound byte is pending on it.
Send(c) ==
    /\ pc = "idle"
    /\ c \in Values(connections)
    /\ pending[c] < MaxPending
    /\ pending' = [pending EXCEPT ![c] = @ + 1]
    /\ UNCHANGED <<connections, last_discovery, created, closed,
                   pc, op, outcome, exc, ret, args, pre>>

\* The call is over: the caller goes on with its loop.
Return ==
    /\ pc = "done"
    /\ pc' = "idle"
    /\ op' = "none"
    /\ outcome' = "none"
    /\ exc' = "none"
    /\ ret' = <<>>
    /\ args' = NoArgs
    /\ pre' = NoPre
    /\ UNCHANGED client

DoDiscover ==
    /\ pc = "idle"
    /\ \E D \in SUBSET Endpoints, t \in 1..MaxClock :
           \E enum \in Perms(New(D, connections)) :
               \E F \in SUBSET {connections[e] : e \in DOMAIN connections \ D} :
                   Discover(D, t, enum, F)

DoRemove ==
    /\ pc = "idle"
    /\ \E key \in Endpoints :
           \E F \in SUBSET {connections[e] : e \in DOMAIN connections \cap {key}} :
               Remove(key, F)

DoRead ==
    /\ pc = "idle"
    /\ \E R \in SUBSET Values(connections), X \in SUBSET Values(connections),
          W \in SUBSET Values(connections) :
           /\ R \cup W \cup X # {}
           /\ Cardinality(R) + Cardinality(W) + Cardinality(X) <= MaxReady
           /\ \E ord \in Perms(DOMAIN connections) :
                  \E yields \in [R -> -1..MaxFrames] :
                      \E sent \in {f \in [W -> -1..MaxPending] : \A c \in W : f[c] <= pending[c]} :
                          Read(ord, R, W, X, yields, sent)

DoSend ==
    /\ pc = "idle"
    /\ \E c \in Values(connections) : Send(c)

\* -------------------------------------------------------------- wire frames
\* nsq.response and nsq.constants, as the specification and
\* src/test/test_response.py describe them.  Bytes are the integers 0..255.
FRAME_TYPE_RESPONSE == 0
FRAME_TYPE_ERROR == 1
FRAME_TYPE_MESSAGE == 2

\* The frame-type tags tried: the three known ones, -1, 3 and the 9042 of
\* test_from_raw_unknown_frame.
FrameTypes == {-1, FRAME_TYPE_RESPONSE, FRAME_TYPE_ERROR, FRAME_TYPE_MESSAGE, 3, 9042}

Payloads == {<<>>, <<104, 105>>}
Timestamps == {0, 258}
Attempts == {1, 256}
Ids == {[i \in 1..16 |-> 97], [i \in 1..16 |-> IF i = 16 THEN 98 ELSE 97]}
Delays == {0, 1}

Front(b) == SubSeq(b, 1, Len(b) - 1)

\* struct.pack('>...'): n as w big-endian bytes, two's complement.
RECURSIVE Pack(_, _)
Pack(n, w) == IF w = 0 THEN <<>> ELSE Append(Pack(n \div 256, w - 1), n % 256)

\* struct.unpack('>...'): the big-endian bytes b as a number, signed for the
\* 'l' and 'q' formats and unsigned for 'H'.
RECURSIVE Unpack(_, _)
Unpack(b, signed) ==
    IF Len(b) = 1
    THEN IF signed /\ b[1] >= 128 THEN b[1] - 256 ELSE b[1]
    ELSE Unpack(Front(b), signed) * 256 + b[Len(b)]

\* struct.pack('>qH16s<n>s', timestamp, attempts, id, body)
PackMessage(timestamp, attempts, id, body) ==
    Pack(timestamp, 8) \o Pack(attempts, 2) \o id \o body

\* struct.pack('>l<n>s', frame_type, payload)
PackFrame(frame_type, payload) == Pack(frame_type, 4) \o payload

\* The three response classes.
Response(conn, frame_type, data) ==
    [class |-> "Response", connection |-> conn, frame_type |-> frame_type, data |-> data]

Error(conn, frame_type, data) ==
    [class |-> "Error", connection |-> conn, frame_type |-> frame_type, data |-> data]

\* Message splits its payload by the fixed layout: 8 bytes of timestamp,
\* 2 of attempts, 16 of id, the rest is the body.
Message(conn, frame_type, data) ==
    [class |-> "Message", connection |-> conn, frame_type |-> frame_type, data |-> data,
     timestamp |-> Unpack(SubSeq(data, 1, 8), TRUE),
     attempts |-> Unpack(SubSeq(data, 9, 10), FALSE),
     id |-> SubSeq(data, 11, 26),
     body |-> SubSeq(data, 27, Len(data))]

\* from_raw that takes an unknown tag for a plain Response.
FromRawDefaulting(conn, raw) ==
    LET frame_type == Unpack(SubSeq(raw, 1, 4), TRUE)
        message == SubSeq(raw, 5, Len(raw))
    IN  CASE frame_type = FRAME_TYPE_MESSAGE ->
               [raised |-> FALSE, exc |-> "none", obj |-> <<Message(conn, frame_type, message)>>]
          [] frame_type = FRAME_TYPE_ERROR ->
               [raised |-> FALSE, exc |-> "none", obj |-> <<Error(conn, frame_type, message)>>]
          [] OTHER ->
               [raised |-> FALSE, exc |-> "none", obj |-> <<Response(conn, frame_type, message)>>]

\* Response.from_raw(conn, raw): the first four bytes are the tag, the rest
\* is the payload; an unknown tag raises and builds nothing.
FromRaw(conn, raw) ==
    LET frame_type == Unpack(SubSeq(raw, 1, 4), TRUE)
        message == SubSeq(raw, 5, Len(raw))
    IN  CASE frame_type = FRAME_TYPE_MESSAGE ->
               [raised |-> FALSE, exc |-> "none", obj |-> <<Message(conn, frame_type, message)>>]
          [] frame_type = FRAME_TYPE_RESPONSE ->
               [raised |-> FALSE, exc |-> "none", obj |-> <<Response(conn, frame_type, message)>>]
          [] frame_type = FRAME_TYPE_ERROR ->
               [raised |-> FALSE, exc |-> "none", obj |-> <<Error(conn, frame_type, message)>>]
          [] OTHER ->
               [raised |-> TRUE, exc |-> "TypeError", obj |-> <<>>]

\* A frame arrives on conn and is decoded.  The connection starts with no
\* command recorded, as the mock connection of TestMessage.setUp does.
Decode(conn, frame_type, payload, id) ==
    LET raw == PackFrame(frame_type, payload)
    IN  /\ frame' = [conn |-> conn, frame_type |-> frame_type, payload |-> payload,
                     id |-> id, raw |-> raw]
        /\ response' = FromRaw(conn, raw)
        /\ commands' = [c \in Conns |-> <<>>]
        /\ acks' = <<>>
        /\ UNCHANGED <<client, pc, op, outcome, exc, ret, args, pre, dropped>>

\* A RESPONSE, ERROR or unknown frame with any payload.
DecodePlain ==
    \E conn \in Conns, frame_type \in FrameTypes \ {FRAME_TYPE_MESSAGE}, payload \in Payloads :
        Decode(conn, frame_type, payload, <<>>)

\* A MESSAGE frame; its payload is well formed (26 bytes and a body).
DecodeMessage ==
    \E conn \in Conns, timestamp \in Timestamps, attempts \in Attempts,
       id \in Ids, body \in Payloads :
        Decode(conn, FRAME_TYPE_MESSAGE, PackMessage(timestamp, attempts, id, body), id)

\* An ack that sends its command on every connection.
SendToAll(cmds, msg, name, params) ==
    [c \in DOMAIN cmds |-> Append(cmds[c], [name |-> name, params |-> <<msg.id>> \o params])]

\* Message.fin / req / touch: self.connection.<name>(self.id, ...).
SendCommand(cmds, msg, name, params) ==
    [cmds EXCEPT ![msg.connection] = Append(@, [name |-> name, params |-> <<msg.id>> \o params])]

Ack(name, params) ==
    /\ response.obj # <<>>
    /\ response.obj[1].class = "Message"
    /\ Len(acks) < MaxAcks
    /\ commands' = SendCommand(commands, response.obj[1], name, params)
    /\ acks' = Append(acks, [name |-> name, params |-> params])
    /\ UNCHANGED <<frame, response, client, pc, op, outcome, exc, ret, args, pre, dropped>>

Fin == Ack("fin", <<>>)

Req == \E delay \in Delays : Ack("req", <<delay>>)

Touch == Ack("touch", <<>>)

\* The client on its own: no history is kept.
Next ==
    \/ DiscoverFails /\ UNCHANGED <<dropped, wire>>
    \/ DoDiscover /\ UNCHANGED <<dropped, wire>>
    \/ DoRemove /\ UNCHANGED <<dropped, wire>>
    \/ DoRead /\ UNCHANGED <<dropped, wire>>
    \/ ReadBlocked /\ UNCHANGED <<dropped, wire>>
    \/ DoSend /\ UNCHANGED <<dropped, wire>>
    \/ Return /\ UNCHANGED <<dropped, wire>>

Spec == Init /\ [][Next]_vars

\* The same client, with the connections each call asked remove() to drop
\* added to the history variable dropped.
Record == dropped' = dropped \cup args'.asked

TrackedNext ==
    \/ DiscoverFails /\ Record /\ UNCHANGED wire
    \/ DoDiscover /\ Record /\ UNCHANGED wire
    \/ DoRemove /\ Record /\ UNCHANGED wire
    \/ DoRead /\ Record /\ UNCHANGED wire
    \/ ReadBlocked /\ Record /\ UNCHANGED wire
    \/ DoSend /\ Record /\ UNCHANGED wire
    \/ Return /\ Record /\ UNCHANGED wire

TrackedSpec == Init /\ [][TrackedNext]_vars

\* A read() pass in which select reports just c, writable, and the transport
\* takes all of c's pending bytes.
DrainPass(c) ==
    /\ pc = "idle"
    /\ c \in Values(connections)
    /\ pending[c] > 0
    /\ \E ord \in Perms(DOMAIN connections) :
           Read(ord, {}, {c}, {}, <<>>, (c :> pending[c]))
    /\ UNCHANGED <<dropped, wire>>

\* The owning thread goes on calling, and whenever passes that report c
\* writable keep being possible, the transport ends up taking c's bytes.
LiveSpec ==
    /\ Spec
    /\ WF_vars(Return /\ UNCHANGED <<dropped, wire>>)
    /\ \A c \in Conns : SF_vars(DrainPass(c))

\* Frames decoded and Messages acknowledged, the client left alone.
WireNext ==
    \/ DecodePlain
    \/ DecodeMessage
    \/ Fin
    \/ Req
    \/ Touch

WireSpec == Init /\ [][WireNext]_vars

\* ------------------------------------------------------------------ claims
Finished(o) == pc = "done" /\ op = o

\* The endpoints pooled before the call, and the lookup's answer.
P == DOMAIN pre.connections
D == args.D

\* The Connection objects the last call built.
Built == DOMAIN pending \ DOMAIN pre.pending

\* The connections of the last read() pass whose read() or flush() raised.
ReadFailed == {c \in Range(args.readable) : args.yields[c] < 0}
FlushFailed == {c \in Range(args.writable) : args.sent[c] < 0}

\* C1: whenever discover() has been answered a producer set D (every close()
\* succeeding), it returns, the pool's endpoint set is exactly D, and every
\* connection pooled before under an endpoint outside D is out of the pool
\* and closed.
C1_PoolIsDiscovered ==
    (Finished("discover") /\ exc # "DiscoveryError" /\ args.closeFails = {}) =>
        /\ outcome = "returned"
        /\ DOMAIN connections = D
        /\ \A e \in P \ D : pre.connections[e] \in closed

\* C2: discover() returns exactly the connections it built in that call, one
\* per endpoint of D \ P, each registered in the pool under its endpoint.
C2_ReturnsWhatItBuilt ==
    Finished("discover") =>
        /\ Range(ret) = Built
        /\ Len(ret) = Cardinality(D \ P)
        /\ \A i \in DOMAIN ret : /\ ret[i].ep \in D \ P
                                 /\ ret[i].ep \in DOMAIN connections
                                 /\ connections[ret[i].ep] = ret[i]

\* C3: after discover(), however it ended, every endpoint that was pooled
\* and is discovered again still maps to the same Connection object, which
\* the call neither closed nor returned.
C3_KeptUntouched ==
    Finished("discover") =>
        \A e \in P \cap D :
            /\ e \in DOMAIN connections
            /\ connections[e] = pre.connections[e]
            /\ connections[e] \notin closed \ pre.closed
            /\ connections[e] \notin Range(ret)

\* C3's case: a discover() that returned, kept a pooled endpoint and built a
\* connection for a new one.
C3_Witness ==
    /\ Finished("discover")
    /\ outcome = "returned"
    /\ P \cap D # {}
    /\ D \ P # {}
    /\ Len(ret) > 0

\* C4: remove(conn) for an endpoint that is not in the pool returns, leaves
\* the pool as it was and closes nothing.
C4_RemoveAbsentIsNoOp ==
    (Finished("remove") /\ args.key \notin P) =>
        /\ outcome = "returned"
        /\ connections = pre.connections
        /\ closed = pre.closed

\* C5: remove(conn) returns whatever close() does; for a pooled endpoint the
\* endpoint is out of the pool, close() was called on its connection and that
\* connection is the value returned; for an absent one None is returned.
C5_RemoveEvictsAndReturns ==
    Finished("remove") =>
        /\ outcome = "returned"
        /\ IF args.key \in P
           THEN /\ args.key \notin DOMAIN connections
                /\ pre.connections[args.key] \in closed \cup args.closeFails
                /\ ret = <<pre.connections[args.key]>>
           ELSE ret = <<>>

\* C6: a discover() in which close() of a no longer discovered connection
\* raises still returns, with every stale endpoint out of the pool and the
\* pool's endpoint set equal to D.
C6_CloseFailureContained ==
    (Finished("discover") /\ args.closeFails # {}) =>
        /\ outcome = "returned"
        /\ (P \ D) \cap DOMAIN connections = {}
        /\ DOMAIN connections = D

\* C7: a read() pass (no read() or flush() failing in it) that select
\* answered with connections in error returns, and each of those connections
\* is then out of the pool and closed.
C7_ErroredAreDropped ==
    (Finished("read") /\ args.exceptions # <<>> /\ ReadFailed = {} /\ FlushFailed = {}) =>
        /\ outcome = "returned"
        /\ \A c \in Range(args.exceptions) :
               /\ c \notin Values(connections)
               /\ c \in closed

\* C8: a read() pass (no read() or flush() failing in it) in which a
\* connection is reported both readable and in error returns a response
\* sequence, and no response of that connection is in it.
C8_NoResponseOfErrored ==
    (/\ Finished("read")
     /\ Range(args.exceptions) \cap Range(args.readable) # {}
     /\ ReadFailed = {} /\ FlushFailed = {}) =>
        /\ outcome = "returned"
        /\ \A i \in DOMAIN ret : ret[i].conn \notin Range(args.exceptions)

\* C9: a read() pass with no connection in error, in which some read() or
\* flush() raises, returns; the failing connections are out of the pool, and
\* the responses of the readable connections that did not fail are returned.
C9_IOFailureContained ==
    (Finished("read") /\ args.exceptions = <<>> /\ ReadFailed \cup FlushFailed # {}) =>
        /\ outcome = "returned"
        /\ \A c \in ReadFailed \cup FlushFailed : c \notin Values(connections)
        /\ \A c \in Range(args.readable) \ ReadFailed :
               Filter(ret, {r \in Range(ret) : r.conn = c}) = Frames(c, args.yields[c])

\* C10: the sequence a read() pass returns holds, for every readable
\* connection, exactly the responses its read() yielded, each once and in the
\* order it yielded them, and nothing from any other connection.
C10_PerConnectionOrder ==
    (Finished("read") /\ outcome = "returned") =>
        /\ \A c \in Range(args.readable) :
               Filter(ret, {r \in Range(ret) : r.conn = c}) = Frames(c, args.yields[c])
        /\ \A i \in DOMAIN ret : ret[i].conn \in Range(args.readable)
        /\ Len(ret) = Cardinality(Range(ret))

\* C10's case: a pass that returned the responses of two readable
\* connections, one of which yielded two.
C10_Witness ==
    /\ Finished("read")
    /\ outcome = "returned"
    /\ Len(args.readable) = 2
    /\ args.yields[args.readable[1]] = 2
    /\ args.yields[args.readable[2]] >= 1
    /\ Len(ret) >= 3

\* C11: a read() call returns: it is never left waiting in select.select
\* with nothing ready.
C11_ReadReturns == op = "read" => pc = "done"

\* C12: every pooled Connection is stored under its own (host, port), and no
\* Connection is pooled under two endpoints.
C12_OnePerEndpoint ==
    /\ \A e \in DOMAIN connections : connections[e].ep = e
    /\ \A e1, e2 \in DOMAIN connections : connections[e1] = connections[e2] => e1 = e2

\* C12's case: remove() called for one of two pooled connections.
C12_Witness ==
    /\ Finished("remove")
    /\ args.key \in P
    /\ Cardinality(DOMAIN connections) >= 2

\* C15: the connections a read() pass may call flush() on (those select
\* reports writable) were pooled with pending bytes when the pass started,
\* and the connections it may call read() on were pooled when it started.
C15_OnlyWatchedAreServed ==
    Finished("read") =>
        /\ Range(args.writable) \subseteq {c \in Values(pre.connections) : pre.pending[c] > 0}
        /\ Range(args.readable) \subseteq Values(pre.connections)
        /\ \A c \in Values(pre.connections) :
               pre.pending[c] = 0 => c \notin Range(args.writable) /\ pending[c] = 0

\* C15's case: a pass that flushed one connection and read from another
\* that had nothing pending.
C15_Witness ==
    /\ Finished("read")
    /\ args.writable # <<>>
    /\ \E c \in Range(args.readable) : pre.pending[c] = 0 /\ c \notin Range(args.writable)
    /\ \E c \in Range(args.writable) : pending[c] < pre.pending[c]

\* C16: a read() pass, however it ended, adds no endpoint to the pool, takes
\* out only endpoints of connections reported in error, leaves every other
\* entry as it was and does not change the time of the last discovery.
C16_ReadFrame ==
    Finished("read") =>
        /\ DOMAIN connections \subseteq P
        /\ \A e \in P :
               IF e \in DOMAIN connections
               THEN connections[e] = pre.connections[e]
               ELSE pre.connections[e] \in Range(args.exceptions)
        /\ last_discovery = pre.last_discovery

\* C16's case: a pass after a discovery, over two pooled connections, one of
\* them reported in error and handed to remove().
C16_Witness ==
    /\ Finished("read")
    /\ args.asked # {}
    /\ Cardinality(P) >= 2
    /\ pre.last_discovery > 0

\* C17: a discover() whose lookup fails raises, and the pool, the closed
\* connections, the connections built and the time of the last discovery
\* are what they were before the call.
C17_FailedDiscoveryChangesNothing ==
    (Finished("discover") /\ exc = "DiscoveryError") =>
        /\ outcome = "raised"
        /\ connections = pre.connections
        /\ closed = pre.closed
        /\ Built = {}
        /\ last_discovery = pre.last_discovery

\* C17's case: a lookup failing for a client that has discovered before.
C17_Witness ==
    /\ Finished("discover")
    /\ exc = "DiscoveryError"
    /\ P # {}
    /\ pre.last_discovery > 0

\* C18: no Connection in the pool is one the client has closed.
C18_NoClosedPooled == Values(connections) \cap closed = {}

\* C18's case: a pass that read from a pooled connection and called
\* remove() for a pooled connection reported in error.
C18_Witness ==
    /\ Finished("read")
    /\ args.asked # {}
    /\ args.readable # <<>>
    /\ Values(connections) # {}

\* C19: after a discover() that returned and lists the endpoint of a
\* connection remove() was called for, that endpoint is pooled with another
\* Connection object than the dropped one.
C19_DroppedIsReplaced ==
    (Finished("discover") /\ outcome = "returned") =>
        \A c \in dropped :
            c.ep \in D => c.ep \in DOMAIN connections /\ connections[c.ep] # c

C13_DispatchOnTag ==
    frame.raw # <<>> =>
        LET t == frame.frame_type
            known == {FRAME_TYPE_RESPONSE, FRAME_TYPE_ERROR, FRAME_TYPE_MESSAGE}
            class == CASE t = FRAME_TYPE_RESPONSE -> "Response"
                       [] t = FRAME_TYPE_ERROR -> "Error"
                       [] t = FRAME_TYPE_MESSAGE -> "Message"
                       [] OTHER -> "none"
        IN  /\ t \in known =>
                /\ ~response.raised
                /\ Len(response.obj) = 1
                /\ response.obj[1].class = class
                /\ response.obj[1].data = frame.payload
                /\ response.obj[1].connection = frame.conn
            /\ t = FRAME_TYPE_MESSAGE =>
                LET m == response.obj[1]
                IN  /\ m.id = frame.id
                    /\ PackMessage(m.timestamp, m.attempts, m.id, m.body) = frame.payload
            /\ t \notin known => response.raised /\ response.obj = <<>>

C13_Witness ==
    /\ frame.frame_type = 9042
    /\ frame.payload # <<>>
    /\ response.raised

\* C14: the commands recorded on the connection a Message arrived on are
\* exactly the acks called on it, one command each, in order, each carrying
\* the Message's id (req also its delay); nothing is recorded on any other
\* connection.
C14_AckGoesToOrigin ==
    \A c \in Conns :
        commands[c] =
            IF frame.raw # <<>> /\ c = frame.conn
            THEN [i \in 1..Len(acks) |->
                     [name |-> acks[i].name, params |-> <<frame.id>> \o acks[i].params]]
            ELSE <<>>

C14_Witness ==
    /\ Len(acks) = 2
    /\ acks[1].name = "fin"
    /\ acks[2] = [name |-> "req", params |-> <<1>>]
    /\ response.obj[1].class = "Message"
    /\ Len(commands[response.obj[1].connection]) = 2

====
